---- MODULE Spec2Model ----
(***************************************************************************)
(* CONSCRAPER: the award aggregation and trend-classification engine       *)
(* (filter_20_percent_change) of the script variants CONSCRAPERV1.py and   *)
(* CONSCRAPERV2.py (CONSCRAPERFINAL.py and conscraperfinal_2.py carry the  *)
(* same function body as V2), the optional trend filter and the rollups of *)
(* __main__, and the page loop of the fetcher.                             *)
(*                                                                         *)
(* A JSON field of a raw award record is a tagged value [t, v]:            *)
(*   t = "str"      a JSON string, v its characters (or a name)            *)
(*   t = "num"      a JSON number, v its value                             *)
(*   t = "null"     JSON null (Python None)                                *)
(*   t = "missing"  the key is absent from the record                      *)
(* Obligated amounts of the specification Spec are integral and far below  *)
(* 2^53, so every double the code computes from them by + and - is exact   *)
(* and is modelled by the integer; SpecFloat models the accumulation loop  *)
(* over doubles of magnitude around 2^53, where + rounds.                  *)
(***************************************************************************)
EXTENDS Integers, Sequences, FiniteSets, TLC

VARIABLES
    variant,       \* which script runs: "V1" (CONSCRAPERV1.py), "V2",
                   \* "FINAL" (CONSCRAPERFINAL.py), "FINAL2" (conscraperfinal_2.py)
    current_year,  \* datetime.now().year of the run
    input_class,   \* the pool the run's raw records are drawn from
    data,          \* the records the accumulation loop has consumed so far
    award_years,   \* award_years: award id -> (year -> cumulative amount)
    award_keys,    \* insertion order of award_years' keys (dict order)
    award_info,    \* award_info: award id -> metadata
    pc,            \* "accumulate", "returned", "filtered", "raised"
    exc,           \* the exception that left filter_20_percent_change, or ""
    filtered,      \* the list filter_20_percent_change builds and returns
    trend_only,    \* args.trend_only once __main__ has applied it, or ""
    files,         \* the rows of the report files __main__ has written
    top_n,         \* the top_n of save_top_increases_decreases (10 by default)
    max_pages,     \* the fetcher's max_pages: [given |-> FALSE] is None
    page,          \* the fetcher's page
    retries,       \* the fetcher's retries
    output,        \* the fetcher's output
    fpc,           \* "idle", "fetching", "returned", "raised"
    requested,     \* history: the requests sent, each [page, outcome]
    fetched        \* history: the pages whose results were appended

\* the variables of the engine and of __main__, and those of the fetcher
engine_vars == <<variant, current_year, input_class, data, award_years, award_keys,
                 award_info, pc, exc, filtered, trend_only, files, top_n>>

fetch_vars == <<max_pages, page, retries, output, fpc, requested, fetched>>

vars == <<variant, current_year, input_class, data, award_years, award_keys,
          award_info, pc, exc, filtered, trend_only, files, top_n,
          max_pages, page, retries, output, fpc, requested, fetched>>

(***************************************************************************)
(* Bounds of the model.                                                    *)
(***************************************************************************)
MaxRecords == 4

\* the awards of an input of SpecMain
MaxAwards == 3

\* the pages of the remote source that hold records
ServerPages == 2

(***************************************************************************)
(* Doubles around 2^53. The pair [hi, lo], lo small, is the integer        *)
(* hi * 2^53 + lo; a double is a pair that FloatRound leaves alone.        *)
(***************************************************************************)
Big(hi, lo) == [hi |-> hi, lo |-> lo]

RECURSIVE Pow2(_)
Pow2(e) == IF e = 0 THEN 1 ELSE 2 * Pow2(e - 1)

RECURSIVE Log2Floor(_)
Log2Floor(h) == IF h <= 1 THEN 0 ELSE 1 + Log2Floor(h \div 2)

\* n/d rounded to the nearest integer, ties to the even one (d > 0)
NearestEven(n, d) ==
    LET q == n \div d
        r == n - q * d
    IN  IF 2 * r < d THEN q
        ELSE IF 2 * r > d THEN q + 1
        ELSE IF q % 2 = 0 THEN q ELSE q + 1

\* the spacing of the doubles around H * 2^53 + L (H >= 1): 2^(e+1) in
\* [2^(53+e), 2^(54+e)), and 2^e just below the power of two 2^(53+e)
Ulp(H, L) ==
    LET e == Log2Floor(H)
    IN  IF L < 0 /\ H = Pow2(e) THEN Pow2(e) ELSE Pow2(e + 1)

\* the double nearest to x, ties to the even mantissa (IEEE 754 binary64,
\* round-half-even): what float(x) and the + of two doubles return
FloatRound(x) ==
    IF x.hi = 0 THEN x
    ELSE LET s == IF x.hi < 0 THEN 0 - 1 ELSE 1
             H == s * x.hi
             L == s * x.lo
             u == Ulp(H, L)
         IN  Big(x.hi, s * u * NearestEven(L, u))

ExactPlus(a, b) == Big(a.hi + b.hi, a.lo + b.lo)

\* a + b of two doubles
FloatPlus(a, b) == FloatRound(ExactPlus(a, b))

\* = written for +=
PlusOverwrite(num, a, b) == b

(***************************************************************************)
(* The arithmetic num of a specification:                                  *)
(*   "int"     integral amounts far below 2^53, held as integers: the      *)
(*             double holding n is n and + is exact              (Spec)    *)
(*   "double"  doubles around 2^53, held as pairs: + rounds   (SpecFloat)  *)
(*   "exact"   pairs with every sum kept exact, to compare "double" with   *)
(***************************************************************************)
Plus(num, a, b) ==
    CASE num = "int" -> a + b
      [] num = "double" -> FloatPlus(a, b)
      [] OTHER -> ExactPlus(a, b)

\* float(x) of a number x
Conv(num, x) == IF num = "double" THEN FloatRound(x) ELSE x

\* the small integer n as a number
Embed(num, n) == IF num = "int" THEN n ELSE Big(0, n)


(***************************************************************************)
(* JSON values and Python's conversions.                                   *)
(***************************************************************************)
Str(s) == [t |-> "str", v |-> s]
Num(n) == [t |-> "num", v |-> n]
Null == [t |-> "null", v |-> <<>>]
Missing == [t |-> "missing", v |-> <<>>]

Ok(x) == [ok |-> TRUE, v |-> x, err |-> ""]
Raise(e) == [ok |-> FALSE, v |-> 0, err |-> e]

DigitChars == <<"0", "1", "2", "3", "4", "5", "6", "7", "8", "9">>
IsDigit(c) == \E n \in 1..10 : DigitChars[n] = c
DigitVal(c) == (CHOOSE n \in 1..10 : DigitChars[n] = c) - 1

RECURSIVE DigitsValue(_)
DigitsValue(s) ==
    IF s = <<>> THEN 0
    ELSE 10 * DigitsValue(SubSeq(s, 1, Len(s) - 1)) + DigitVal(s[Len(s)])

AllDigits(s) == s # <<>> /\ \A k \in 1..Len(s) : IsDigit(s[k])

\* s[:4]
Prefix4(s) == SubSeq(s, 1, IF Len(s) < 4 THEN Len(s) ELSE 4)

\* int(s) of a str s
IntOfStr(s) == IF AllDigits(s) THEN Ok(DigitsValue(s)) ELSE Raise("ValueError")

\* float(x) of a JSON value x that is present, in the arithmetic num
FloatOf(x, num) ==
    CASE x.t = "num" -> Ok(Conv(num, x.v))
      [] x.t = "null" -> Raise("TypeError")
      [] OTHER ->
           IF x.v # <<>> /\ x.v[1] = "-"
           THEN IF AllDigits(Tail(x.v))
                THEN Ok(Conv(num, Embed(num, 0 - DigitsValue(Tail(x.v)))))
                ELSE Raise("ValueError")
           ELSE IF AllDigits(x.v) THEN Ok(Conv(num, Embed(num, DigitsValue(x.v))))
                ELSE Raise("ValueError")

\* the slice [5:7], the month, taken for the year
ParseYearFromMonth(award) ==
    CASE award.action_date.t = "missing" -> Raise("KeyError")
      [] award.action_date.t = "str" ->
           IntOfStr(SubSeq(award.action_date.v, 6,
                           IF Len(award.action_date.v) < 7
                           THEN Len(award.action_date.v) ELSE 7))
      [] OTHER -> Raise("TypeError")

\* year = int(award[<date>][:4])
ParseYear(award) ==
    CASE award.action_date.t = "missing" -> Raise("KeyError")
      [] award.action_date.t = "str" -> IntOfStr(Prefix4(award.action_date.v))
      [] OTHER -> Raise("TypeError")

\* float(award['federal_action_obligation'])       (V2)
\* float(award.get('total_obligation', 0))         (V1)
ParseAmount(v, award, num) ==
    IF award.federal_action_obligation.t = "missing"
    THEN IF v = "V1" THEN Ok(Conv(num, Embed(num, 0))) ELSE Raise("KeyError")
    ELSE FloatOf(award.federal_action_obligation, num)

\* d.get(key, "") of a flat field
GetOrEmpty(x) ==
    CASE x.t = "missing" -> ""
      [] x.t = "null" -> "None"
      [] OTHER -> x.v

\* the agency code: award.get("awarding_agency_code", "")                (V2)
\* award.get("awarding_agency", {}).get("toptier_agency", {}).get(...)   (V1)
\* where the field holds the nested object, or null
AgencyCode(v, award) ==
    IF v = "V1" /\ award.awarding_agency_code.t = "null"
    THEN Raise("AttributeError")
    ELSE Ok(GetOrEmpty(award.awarding_agency_code))

(***************************************************************************)
(* The accumulation loop's body, for one record.                           *)
(***************************************************************************)
\* a fresh inner dict at every access
TouchAwardFresh(ay, id) ==
    IF id \in DOMAIN ay THEN [ay EXCEPT ![id] = <<>>] ELSE ay @@ (id :> <<>>)

\* award_years[id]: the defaultdict creates the inner dict on first access
TouchAward(ay, id) == IF id \in DOMAIN ay THEN ay ELSE ay @@ (id :> <<>>)

TouchKeys(keys, ay, id) == IF id \in DOMAIN ay THEN keys ELSE Append(keys, id)

\* award_years[id][year]: the inner defaultdict(float) creates the cell at 0.0
\* when the += reads it, before the right-hand side is evaluated
TouchCell(ay, id, year, Zero) ==
    LET a1 == TouchAward(ay, id)
    IN  IF year \in DOMAIN a1[id] THEN a1
        ELSE [a1 EXCEPT ![id] = a1[id] @@ (year :> Zero)]

\* award_years[id][year] += amount
AddToCell(ay, id, year, amount, num) ==
    [ay EXCEPT ![id] = [@ EXCEPT ![year] = Plus(num, @, amount)]]

\* the metadata of the first record kept
SetInfoOnce(info, id, m) ==
    IF id \in DOMAIN info THEN info ELSE info @@ (id :> m)

\* the metadata never kept
SetInfoSkipped(info, id, m) == info

\* award_info[award['award_id']] = {...}
SetInfo(info, id, m) ==
    IF id \in DOMAIN info THEN [info EXCEPT ![id] = m] ELSE info @@ (id :> m)

State(ay, keys, info, e) == [ay |-> ay, keys |-> keys, info |-> info, exc |-> e]

\* lines 100-109 of CONSCRAPERV2.py (94-103 of CONSCRAPERV1.py): the state
\* after the loop body has run on award; exc is the exception that escaped
\* the except clause (KeyError, ValueError, TypeError are caught), or ""
LoopBody(v, ay, keys, info, award, num) ==
    LET y == ParseYear(award) IN
    IF ~y.ok THEN State(ay, keys, info, "")
    ELSE IF award.award_id.t = "missing" THEN State(ay, keys, info, "")
    ELSE
      LET id == award.award_id.v
          ay1 == TouchCell(ay, id, y.v, Conv(num, Embed(num, 0)))
          keys1 == TouchKeys(keys, ay, id)
          amt == ParseAmount(v, award, num)
      IN  IF ~amt.ok THEN State(ay1, keys1, info, "")
          ELSE
            LET ay2 == AddToCell(ay1, id, y.v, amt.v, num)
                ag == AgencyCode(v, award)
            IN  IF ~ag.ok THEN State(ay2, keys1, info, ag.err)
                ELSE State(ay2, keys1,
                           SetInfo(info, id,
                                   [recipient_name |-> GetOrEmpty(award.recipient_name),
                                    awarding_agency_code |-> ag.v]),
                           "")

(***************************************************************************)
(* The classification loop, lines 111-142 of CONSCRAPERV2.py.              *)
(***************************************************************************)
\* last_5_years = [current_year - i for i in range(5, 0, -1)]
last_5_years(cy) == [k \in 1..5 |-> cy - (6 - k)]

Min(S) == CHOOSE m \in S : \A x \in S : m <= x

RECURSIVE SortedSeq(_)
SortedSeq(S) == IF S = {} THEN <<>> ELSE <<Min(S)>> \o SortedSeq(S \ {Min(S)})

\* sorted(years.items()): the years ascending (each with its amount)
sorted_years(years) == SortedSeq(DOMAIN years)

\* sorted_years[-3:]
last_3_years(years) ==
    LET s == sorted_years(years)
    IN  IF Len(s) <= 3 THEN s ELSE SubSeq(s, Len(s) - 2, Len(s))

Abs(x) == IF x < 0 THEN 0 - x ELSE x

\* num/den rounded to the nearest integer, ties to the even one
RoundHalfEven(num, den) ==
    LET n == IF den < 0 THEN 0 - num ELSE num
        d == Abs(den)
        q == n \div d
        r == n - q * d
    IN  IF 2 * r < d THEN q
        ELSE IF 2 * r > d THEN q + 1
        ELSE IF q % 2 = 0 THEN q ELSE q + 1

\* years.get(y, 0)
YearGet(years, y) == IF y \in DOMAIN years THEN years[y] ELSE 0

RECURSIVE SumSeq(_)
SumSeq(s) == IF s = <<>> THEN 0 ELSE s[1] + SumSeq(Tail(s))

\* sum(years.get(y, 0) for y in last_5_years)
total_5yr(years, cy) == SumSeq([k \in 1..5 |-> YearGet(years, last_5_years(cy)[k])])

\* the threshold excluded: abs(change) > 0.2
QualifiesStrict(first_amount, last_amount) ==
    5 * Abs(last_amount - first_amount) > Abs(first_amount)

\* abs(change) >= 0.2 for change = (last_amount - first_amount) / first_amount:
\* on these amounts the double quotient is on the same side of the double 0.2
\* as the exact quotient is of 1/5
Qualifies(first_amount, last_amount) ==
    5 * Abs(last_amount - first_amount) >= Abs(first_amount)

\* the amounts compared instead of the sign of the change
ChangePositiveByAmounts(first_amount, last_amount) == last_amount > first_amount

\* change > 0
ChangePositive(first_amount, last_amount) ==
    (last_amount - first_amount) * first_amount > 0

\* "Increase" if change > 0 else "Decrease"
Trend(first_amount, last_amount) ==
    IF ChangePositive(first_amount, last_amount) THEN "Increase" ELSE "Decrease"

\* round(change * 100, 2), in hundredths of a percent
change_percent(first_amount, last_amount) ==
    RoundHalfEven(10000 * (last_amount - first_amount), first_amount)

\* the guard of line 120 left out
ZeroBaselineIgnored(first_amount) == FALSE

\* the first amount is a divisor: the guard of line 120
ZeroBaseline(first_amount) == first_amount = 0

\* len(last_3_years) < 2: the guard of line 114
TooFewYears(window) == Len(window) < 2

\* one iteration of the loop of line 111: the rows it appends (none or one)
\* and the exception it raises, or ""
ClassifyAward(award_id, years, info, cy) ==
    LET w == last_3_years(years)
    IN  IF TooFewYears(w) THEN [rows |-> <<>>, exc |-> ""]
        ELSE
          LET first_year == w[1]
              first_amount == years[first_year]
              last_year == w[Len(w)]
              last_amount == years[last_year]
          IN  IF ZeroBaseline(first_amount) THEN [rows |-> <<>>, exc |-> ""]
              ELSE IF first_amount = 0 THEN [rows |-> <<>>, exc |-> "ZeroDivisionError"]
              ELSE IF ~Qualifies(first_amount, last_amount) THEN [rows |-> <<>>, exc |-> ""]
              ELSE IF award_id \notin DOMAIN info THEN [rows |-> <<>>, exc |-> "KeyError"]
              ELSE [rows |-> <<[award_id |-> award_id,
                                recipient_name |-> info[award_id].recipient_name,
                                awarding_agency_code |-> info[award_id].awarding_agency_code,
                                first_year |-> first_year,
                                first_amount |-> first_amount,
                                last_year |-> last_year,
                                last_amount |-> last_amount,
                                change_percent |-> change_percent(first_amount, last_amount),
                                trend |-> Trend(first_amount, last_amount),
                                total_5yr_funding |-> total_5yr(years, cy),
                                funding |-> [y \in {last_5_years(cy)[k] : k \in 1..5}
                                               |-> YearGet(years, y)],
                                abs_change |-> Abs(last_amount - first_amount)]>>,
                    exc |-> ""]

\* the loop of line 111 over award_years.items(), in insertion order
RECURSIVE ClassifyFrom(_, _, _, _, _)
ClassifyFrom(k, keys, ay, info, cy) ==
    IF k > Len(keys) THEN [rows |-> <<>>, exc |-> ""]
    ELSE LET one == ClassifyAward(keys[k], ay[keys[k]], info, cy)
         IN  IF one.exc # "" THEN one
             ELSE LET rest == ClassifyFrom(k + 1, keys, ay, info, cy)
                  IN  [rows |-> one.rows \o rest.rows, exc |-> rest.exc]

\* an unstable descending sort: a row goes before the rows of equal key
RECURSIVE InsertDescBeforeEqual(_, _)
InsertDescBeforeEqual(sorted, row) ==
    IF sorted = <<>> THEN <<row>>
    ELSE IF sorted[1].change_percent > row.change_percent
         THEN <<sorted[1]>> \o InsertDescBeforeEqual(Tail(sorted), row)
         ELSE <<row>> \o sorted

\* list.sort(key=..., reverse=True) is stable: a row goes after every row
\* whose key is at least its own
RECURSIVE InsertDesc(_, _)
InsertDesc(sorted, row) ==
    IF sorted = <<>> THEN <<row>>
    ELSE IF sorted[1].change_percent >= row.change_percent
         THEN <<sorted[1]>> \o InsertDesc(Tail(sorted), row)
         ELSE <<row>> \o sorted

RECURSIVE SortByChangeDesc(_)
SortByChangeDesc(rows) ==
    IF rows = <<>> THEN <<>>
    ELSE InsertDesc(SortByChangeDesc(SubSeq(rows, 1, Len(rows) - 1)), rows[Len(rows)])

\* a["trend"].lower()
Lower(trend) == IF trend = "Increase" THEN "increase" ELSE "decrease"

\* [a for a in filtered_awards if a["trend"].lower() == args.trend_only]
KeepsTrend(row, t) == Lower(row.trend) = t

TrendFiltered(rows, t) ==
    IF t = "both" THEN rows ELSE SelectSeq(rows, LAMBDA a : KeepsTrend(a, t))

\* args.trend_only as __main__ uses it: CONSCRAPERV1.py, CONSCRAPERV2.py and
\* CONSCRAPERFINAL.py filter the ranked rows; conscraperfinal_2.py parses the
\* argument and never reads it
MainFiltered(v, rows, t) == IF v = "FINAL2" THEN rows ELSE TrendFiltered(rows, t)

(***************************************************************************)
(* The rollups, lines 160-218 of CONSCRAPERV2.py.                          *)
(***************************************************************************)
\* rows[:n]
Take(rows, n) == SubSeq(rows, 1, IF Len(rows) < n THEN Len(rows) ELSE n)

\* [d for d in data if d['trend'] == trend]
WithTrend(rows, trend) == SelectSeq(rows, LAMBDA d : d.trend = trend)

\* the two lists of save_top_increases_decreases
increases(rows, n) == Take(WithTrend(rows, "Increase"), n)
decreases(rows, n) == Take(WithTrend(rows, "Decrease"), n)

\* max(data, key=lambda x: x['abs_change']): the first row of greatest key
biggest(rows) ==
    IF rows = <<>> THEN <<>>
    ELSE LET k == CHOOSE i \in 1..Len(rows) :
                    /\ \A j \in 1..Len(rows) : rows[j].abs_change <= rows[i].abs_change
                    /\ \A j \in 1..(i - 1) : rows[j].abs_change < rows[i].abs_change
         IN  <<rows[k]>>

\* the years of last_5_years, as a set
YearSet(cy) == {last_5_years(cy)[k] : k \in 1..5}

\* totals_by_year[y] after the loop of line 176
RECURSIVE totals_by_year(_, _)
totals_by_year(rows, y) ==
    IF rows = <<>> THEN 0
    ELSE totals_by_year(SubSeq(rows, 1, Len(rows) - 1), y) + rows[Len(rows)].funding[y]

\* total_funding = award.get(...): the total of the last award alone
total_funding_assigned(rows) ==
    IF rows = <<>> THEN 0 ELSE rows[Len(rows)].total_5yr_funding

\* total_funding after the loop of line 176
RECURSIVE total_funding(_)
total_funding(rows) ==
    IF rows = <<>> THEN 0
    ELSE total_funding(SubSeq(rows, 1, Len(rows) - 1)) + rows[Len(rows)].total_5yr_funding

\* the one row save_summary_csv writes
summary(rows, cy) ==
    <<[metric |-> "Total Funding",
       funding |-> [y \in YearSet(cy) |-> totals_by_year(rows, y)],
       total_5yr_funding |-> total_funding(rows),
       award_count |-> Len(rows)]>>

\* the value the defaultdict of line 193 creates for a new recipient
NewRecipient(cy) ==
    [award_count |-> 0, total_5yr_funding |-> 0, sum_change_percent |-> 0,
     trends |-> <<>>, funding |-> [y \in YearSet(cy) |-> 0]]

\* every award taken for a new recipient
KnownNever(recs, rec) == FALSE

\* rec is a key of recipients
Known(recs, rec) == rec \in DOMAIN recs.info

\* one iteration of the loop of line 194; recs.keys is the order of the
\* dict's keys
AddAward(recs, award, cy) ==
    LET rec == award.recipient_name
        r0 == IF Known(recs, rec) THEN recs
              ELSE [keys |-> Append(recs.keys, rec),
                    info |-> recs.info @@ (rec :> NewRecipient(cy))]
    IN  [keys |-> r0.keys,
         info |-> [r0.info EXCEPT ![rec] =
                     [award_count |-> @.award_count + 1,
                      total_5yr_funding |-> @.total_5yr_funding + award.total_5yr_funding,
                      sum_change_percent |-> @.sum_change_percent + award.change_percent,
                      trends |-> Append(@.trends, award.trend),
                      funding |-> [y \in YearSet(cy) |-> @.funding[y] + award.funding[y]]]]]

\* recipients after the loop of line 194
RECURSIVE recipients(_, _)
recipients(rows, cy) ==
    IF rows = <<>> THEN [keys |-> <<>>, info |-> <<>>]
    ELSE AddAward(recipients(SubSeq(rows, 1, Len(rows) - 1), cy), rows[Len(rows)], cy)

\* trends.count(label)
Count(trends, label) == Cardinality({k \in 1..Len(trends) : trends[k] = label})

\* max(set(trends), key=trends.count) if trends else "": max keeps the first
\* label of greatest count in the iteration order of the set, and the order
\* a set of str iterates in is that of the hashes of the run (set_order)
major_trend(trends, set_order) ==
    IF trends = <<>> THEN ""
    ELSE LET present == SelectSeq(set_order, LAMBDA l : Count(trends, l) > 0)
         IN  IF Len(present) = 1 THEN present[1]
             ELSE IF Count(trends, present[1]) >= Count(trends, present[2])
                  THEN present[1]
                  ELSE present[2]

\* the orders a set holding both labels iterates in
SetOrders == {<<"Increase", "Decrease">>, <<"Decrease", "Increase">>}

\* the row of one recipient (lines 204-214); average_change_percent in
\* hundredths of a percent, as change_percent is
pivot_row(rec, info, set_order) ==
    [recipient_name |-> rec,
     award_count |-> info.award_count,
     total_5yr_funding |-> info.total_5yr_funding,
     average_change_percent |->
         IF info.award_count # 0
         THEN RoundHalfEven(info.sum_change_percent, info.award_count) ELSE 0,
     major_trend |-> major_trend(info.trends, set_order),
     funding |-> info.funding]

\* pivot_data.sort(key=lambda x: x["total_5yr_funding"], reverse=True), stable
RECURSIVE InsertByTotal(_, _)
InsertByTotal(sorted, row) ==
    IF sorted = <<>> THEN <<row>>
    ELSE IF sorted[1].total_5yr_funding >= row.total_5yr_funding
         THEN <<sorted[1]>> \o InsertByTotal(Tail(sorted), row)
         ELSE <<row>> \o sorted

RECURSIVE SortByTotalDesc(_)
SortByTotalDesc(rows) ==
    IF rows = <<>> THEN <<>>
    ELSE InsertByTotal(SortByTotalDesc(SubSeq(rows, 1, Len(rows) - 1)), rows[Len(rows)])

\* the rows save_recipient_summary writes
pivot_data(rows, cy, set_order) ==
    LET recs == recipients(rows, cy)
    IN  SortByTotalDesc([k \in 1..Len(recs.keys) |->
                           pivot_row(recs.keys[k], recs.info[recs.keys[k]], set_order)])

\* no report file written yet
NoFiles ==
    [result |-> <<>>, top_increases |-> <<>>, top_decreases |-> <<>>,
     biggest |-> <<>>, summary |-> <<>>, recipients |-> <<>>]

\* the files __main__ writes from the filtered rows: CONSCRAPERV1.py and
\* CONSCRAPERV2.py write the result and the rollups (save_to_csv writes no
\* file for no rows), CONSCRAPERFINAL.py writes the result under every
\* name, conscraperfinal_2.py writes the result alone
Reports(v, rows, cy, set_order) ==
    CASE v \in {"V1", "V2"} ->
           [result |-> rows,
            top_increases |-> increases(rows, 10),
            top_decreases |-> decreases(rows, 10),
            biggest |-> biggest(rows),
            summary |-> summary(rows, cy),
            recipients |-> pivot_data(rows, cy, set_order)]
      [] v = "FINAL" ->
           [result |-> rows, top_increases |-> rows, top_decreases |-> rows,
            biggest |-> <<>>, summary |-> rows, recipients |-> rows]
      [] OTHER -> [NoFiles EXCEPT !.result = rows]

(***************************************************************************)
(* The raw records a run is fed: pools of records by input class.          *)
(***************************************************************************)
\* the four digits of a year, as the characters of a date string
YearChars(y) ==
    <<DigitChars[((y \div 1000) % 10) + 1], DigitChars[((y \div 100) % 10) + 1],
      DigitChars[((y \div 10) % 10) + 1], DigitChars[(y % 10) + 1]>>

\* "<year>-03-15" and "<year>-11-30"
DateA(y) == Str(YearChars(y) \o <<"-", "0", "3", "-", "1", "5">>)
DateB(y) == Str(YearChars(y) \o <<"-", "1", "1", "-", "3", "0">>)

Rec(id, date, amount, name, agency) ==
    [award_id |-> id, action_date |-> date, federal_action_obligation |-> amount,
     recipient_name |-> name, awarding_agency_code |-> agency]

Plain(id, y, amount) == Rec(Num(id), DateA(y), Num(amount), Str("ACME"), Str("097"))

NotANumber == Str(<<"N", "/", "A">>)

\* one award, two years, amounts at the 20% boundary
ThresholdPool ==
    {Plain(1, 2021, 100)} \cup {Plain(1, 2023, a) : a \in {120, 119, 80, 81}}

\* one award, zero, negative and cancelling amounts
BaselinePool ==
    {Plain(1, y, a) : y \in {2021, 2023}, a \in {0, 100, -100, -50}}

\* one award over more years than the trailing window holds
WindowPool ==
    {Plain(1, y, a) : y \in {2018, 2021, 2022, 2023}, a \in {100, 150}}

\* well-formed records, one of them with a string amount and another date of
\* the year, and records with one field missing, null or unparsable
MalformedPool ==
    { Plain(1, 2021, 100),
      Rec(Num(1), DateB(2023), Str(<<"1", "3", "0">>), Str("ACME"), Str("097")),
      Plain(2, 2022, 50),
      Rec(Missing, DateA(2022), Num(100), Str("ACME"), Str("097")),
      Rec(Num(1), NotANumber, Num(100), Str("ACME"), Str("097")),
      Rec(Num(1), Null, Num(100), Str("ACME"), Str("097")),
      Rec(Num(1), DateA(2022), NotANumber, Str("ACME"), Str("097")),
      Rec(Num(2), DateA(2023), Missing, Str("ACME"), Str("097")),
      Rec(Num(1), DateA(2023), Num(30), Str("ACME"), Null),
      Rec(Num(2), DateB(2022), Num(80), Missing, Missing) }

\* two awards with equal and with different changes, and a record of award 1
\* whose date does not parse
OrderingPool ==
    { Plain(1, 2021, 100), Plain(1, 2023, 120),
      Plain(2, 2021, 100), Plain(2, 2023, 120),
      Rec(Num(1), NotANumber, Num(100), Str("ACME"), Str("097")) }

Pool(class) ==
    CASE class = "threshold" -> ThresholdPool
      [] class = "baseline" -> BaselinePool
      [] class = "window" -> WindowPool
      [] class = "malformed" -> MalformedPool
      [] class = "ordering" -> OrderingPool

\* the longest input of a class
MaxLen(class) ==
    CASE class = "ordering" -> MaxRecords + 1
      [] class = "malformed" -> MaxRecords - 1
      [] OTHER -> MaxRecords

\* the runs: <<variant, input class, current year>>
Runs ==
    ({"V2"} \X {"threshold", "baseline", "ordering"} \X {2023})
    \cup ({"V2"} \X {"window"} \X {2023, 2024})
    \cup ({"V1", "V2"} \X {"malformed"} \X {2023})

(***************************************************************************)
(* The fetcher: get_awards_last_5_years, lines 23-89 of CONSCRAPERV2.py    *)
(* (get_awards_v1, lines 24-83 of CONSCRAPERV1.py, has the same loops;     *)
(* CONSCRAPERFINAL.py and conscraperfinal_2.py send one request a page).   *)
(***************************************************************************)
\* max_pages=None, and max_pages=n as --max_pages n gives it
None == [given |-> FALSE, n |-> 0]
Given(n) == [given |-> TRUE, n |-> n]

\* the values of max_pages of the runs
MaxPagesArgs == {None, Given(0), Given(1), Given(2)}

\* the default of the parameter max_retries, which no caller overrides
max_retries == 3

\* `max_pages and page > max_pages`: None and 0 are false
CapReached(mp, p) == mp.given /\ mp.n # 0 /\ p > mp.n

\* the records of page p of the remote source: one dated in the requested
\* period and one dated before it
PageResults(p) ==
    IF p <= ServerPages
    THEN <<[page |-> p, n |-> 1, year |-> 2021], [page |-> p, n |-> 2, year |-> 2010]>>
    ELSE <<>>

\* what data.get("results", []) can be for page p: the page's records, or
\* nothing
Responses(p) == {PageResults(p), <<>>}

\* what page_metadata.has_next_page can be; CONSCRAPERV1.py alone reads it
\* (line 72)
NextPageFlags(v) == IF v = "V1" THEN BOOLEAN ELSE {TRUE}

\* the records of a page that are appended: CONSCRAPERV1.py keeps those with
\* start_year <= int(r['date_signed'][:4]) <= current_year (lines 66-69);
\* the other scripts keep all (no recipient or agency keyword is given)
Kept(v, results, cy) ==
    IF v = "V1" THEN SelectSeq(results, LAMBDA r : cy - 5 <= r.year /\ r.year <= cy)
    ELSE results

\* the fetcher has not been called
FetcherIdle ==
    /\ max_pages = None
    /\ page = 1
    /\ retries = 0
    /\ output = <<>>
    /\ fpc = "idle"
    /\ requested = <<>>
    /\ fetched = <<>>

\* the scripts whose fetcher has the retry loop
Retrying(v) == v \in {"V1", "V2"}

\* requests.post or raise_for_status raises requests.RequestException:
\* retries += 1 and the inner loop goes on while retries < max_retries
\* (lines 56-59), else `if not success: break` (lines 64-66); without the
\* retry loop the handler breaks (CONSCRAPERFINAL.py lines 44-46)
RequestFails ==
    /\ fpc = "fetching"
    /\ requested' = Append(requested, [page |-> page, outcome |-> "RequestException", more |-> TRUE])
    /\ IF Retrying(variant) /\ retries + 1 < max_retries
       THEN /\ retries' = retries + 1
            /\ fpc' = "fetching"
       ELSE /\ retries' = IF Retrying(variant) THEN retries + 1 ELSE retries
            /\ fpc' = "returned"
    /\ UNCHANGED <<max_pages, page, output, fetched>>
    /\ UNCHANGED engine_vars

\* response.json() raises a ValueError that is no RequestException: the
\* handler of lines 60-62 breaks out of the retry loop, and `if not
\* success: break` ends the page loop; without that handler the exception
\* leaves the fetcher (CONSCRAPERFINAL.py lines 40-46)
ResponseInvalid ==
    /\ fpc = "fetching"
    /\ requested' = Append(requested, [page |-> page, outcome |-> "ValueError", more |-> TRUE])
    /\ fpc' = IF Retrying(variant) THEN "returned" ELSE "raised"
    /\ UNCHANGED <<max_pages, page, retries, output, fetched>>
    /\ UNCHANGED engine_vars

\* the request succeeds with results (lines 68-85): no results end the loop,
\* else they are appended, page += 1, and the cap is tested; the next
\* iteration starts with retries = 0. In CONSCRAPERV1.py the loop also ends
\* when the response says there is no next page (lines 37 and 72)
PageArrives(results, has_next_page) ==
    /\ fpc = "fetching"
    /\ requested' = Append(requested, [page |-> page, outcome |-> "ok",
                                       more |-> has_next_page])
    /\ IF results = <<>>
       THEN /\ fpc' = "returned"
            /\ UNCHANGED <<page, retries, output, fetched>>
       ELSE /\ output' = output \o Kept(variant, results, current_year)
            /\ fetched' = Append(fetched, page)
            /\ page' = page + 1
            /\ retries' = 0
            /\ fpc' = IF CapReached(max_pages, page + 1) \/ ~has_next_page
                      THEN "returned" ELSE "fetching"
    /\ UNCHANGED max_pages
    /\ UNCHANGED engine_vars

(***************************************************************************)
(* The state machine.                                                      *)
(***************************************************************************)
Init ==
    /\ \E r \in Runs : variant = r[1] /\ input_class = r[2] /\ current_year = r[3]
    /\ data = <<>>
    /\ award_years = <<>>
    /\ award_keys = <<>>
    /\ award_info = <<>>
    /\ pc = "accumulate"
    /\ exc = ""
    /\ filtered = <<>>
    /\ trend_only = ""
    /\ files = NoFiles
    /\ top_n = 10
    /\ FetcherIdle

\* one iteration of `for award in data` (lines 100-109)
AccumulateRecord(award) ==
    /\ pc = "accumulate"
    /\ Len(data) < MaxLen(input_class)
    /\ LET s == LoopBody(variant, award_years, award_keys, award_info, award, "int")
       IN  /\ award_years' = s.ay
           /\ award_keys' = s.keys
           /\ award_info' = s.info
           /\ exc' = s.exc
           /\ pc' = IF s.exc = "" THEN "accumulate" ELSE "raised"
    /\ data' = Append(data, award)
    /\ UNCHANGED <<variant, current_year, input_class, filtered, trend_only, files>>
    /\ UNCHANGED top_n
    /\ UNCHANGED fetch_vars

\* the input is exhausted: the classification loop, the sort and the return
\* (lines 111-146)
ClassifyAndSort ==
    /\ pc = "accumulate"
    /\ LET c == ClassifyFrom(1, award_keys, award_years, award_info, current_year)
       IN  /\ exc' = c.exc
           /\ pc' = IF c.exc = "" THEN "returned" ELSE "raised"
           /\ filtered' = IF c.exc = "" THEN SortByChangeDesc(c.rows) ELSE <<>>
    /\ UNCHANGED <<variant, current_year, input_class, data, award_years,
                   award_keys, award_info, trend_only, files>>
    /\ UNCHANGED top_n
    /\ UNCHANGED fetch_vars

\* __main__ applies args.trend_only (lines 243-245)
ApplyTrendOnly(t) ==
    /\ pc = "returned"
    /\ filtered' = MainFiltered(variant, filtered, t)
    /\ trend_only' = t
    /\ pc' = "filtered"
    /\ UNCHANGED <<variant, current_year, input_class, data, award_years,
                   award_keys, award_info, exc, files>>
    /\ UNCHANGED top_n
    /\ UNCHANGED fetch_vars

Next ==
    \/ \E award \in Pool(input_class) : AccumulateRecord(award)
    \/ ClassifyAndSort
    \/ \E t \in {"increase", "decrease", "both"} : ApplyTrendOnly(t)

Spec == Init /\ [][Next]_vars

(***************************************************************************)
(* SpecFloat: the accumulation loop alone, over amounts around 2^53.       *)
(***************************************************************************)
WidePlain(id, y, x) == Rec(Num(id), DateA(y), Num(x), Str("ACME"), Str("097"))

\* amounts 2^53, -2^53, 1 and "3", and a record whose amount does not parse
WidePool ==
    { WidePlain(1, 2023, Big(1, 0)),
      WidePlain(1, 2023, Big(0 - 1, 0)),
      WidePlain(1, 2023, Big(0, 1)),
      Rec(Num(1), DateB(2021), Str(<<"3">>), Str("ACME"), Str("097")),
      Rec(Num(2), DateA(2023), NotANumber, Str("ACME"), Str("097")) }

InitFloat ==
    /\ variant = "V2"
    /\ input_class = "wide"
    /\ current_year = 2023
    /\ data = <<>>
    /\ award_years = <<>>
    /\ award_keys = <<>>
    /\ award_info = <<>>
    /\ pc = "accumulate"
    /\ exc = ""
    /\ filtered = <<>>
    /\ trend_only = ""
    /\ files = NoFiles
    /\ top_n = 10
    /\ FetcherIdle

\* one iteration of `for award in data` (lines 100-109), in doubles
AccumulateWide(award) ==
    /\ pc = "accumulate"
    /\ Len(data) < MaxRecords
    /\ LET s == LoopBody(variant, award_years, award_keys, award_info, award, "double")
       IN  /\ award_years' = s.ay
           /\ award_keys' = s.keys
           /\ award_info' = s.info
           /\ exc' = s.exc
           /\ pc' = IF s.exc = "" THEN "accumulate" ELSE "raised"
    /\ data' = Append(data, award)
    /\ UNCHANGED <<variant, current_year, input_class, filtered, trend_only, files>>
    /\ UNCHANGED top_n
    /\ UNCHANGED fetch_vars

NextFloat == \E award \in WidePool : AccumulateWide(award)

SpecFloat == InitFloat /\ [][NextFloat]_vars

\* the whole loop of lines 100-109 on the input seq, from empty dicts, in the
\* arithmetic num; an exception that escapes ends the loop
RECURSIVE Run(_, _, _)
Run(v, seq, num) ==
    IF seq = <<>> THEN State(<<>>, <<>>, <<>>, "")
    ELSE LET before == Run(v, SubSeq(seq, 1, Len(seq) - 1), num)
         IN  IF before.exc # "" THEN before
             ELSE LoopBody(v, before.ay, before.keys, before.info, seq[Len(seq)], num)

(***************************************************************************)
(* SpecMain: __main__ from the fetched records to the report files.        *)
(***************************************************************************)
Named(id, y, amount, name) == Rec(Num(id), DateA(y), Num(amount), Str(name), Str("097"))

\* the records of one award: none, or two years of one recipient with a
\* change of +50%, +200%, -50%, -80% or +10%
Shape(id, shape, name) ==
    CASE shape = "up" -> <<Named(id, 2021, 100, name), Named(id, 2022, 150, name)>>
      [] shape = "surge" -> <<Named(id, 2021, 100, name), Named(id, 2022, 300, name)>>
      [] shape = "down" -> <<Named(id, 2021, 200, name), Named(id, 2022, 100, name)>>
      [] shape = "slump" -> <<Named(id, 2021, 200, name), Named(id, 2022, 40, name)>>
      [] shape = "flat" -> <<Named(id, 2021, 100, name), Named(id, 2022, 110, name)>>
      [] OTHER -> <<>>

Shapes ==
    {<<"none", "ACME">>, <<"flat", "ACME">>, <<"surge", "BOLT">>}
    \cup ({"up", "down"} \X {"ACME", "BOLT"})

\* the inputs of n awards, award by award
RECURSIVE InputsOf(_)
InputsOf(n) ==
    IF n = 0 THEN {<<>>}
    ELSE {prev \o Shape(n, sh[1], sh[2]) : prev \in InputsOf(n - 1), sh \in Shapes}

\* __main__ calls the engine on a non-empty list only (line 238)
MainInputs == InputsOf(MaxAwards) \ {<<>>}

InitMain ==
    /\ variant \in {"V1", "V2", "FINAL", "FINAL2"}
    /\ input_class = "main"
    /\ current_year = 2023
    /\ data = <<>>
    /\ award_years = <<>>
    /\ award_keys = <<>>
    /\ award_info = <<>>
    /\ pc = "accumulate"
    /\ exc = ""
    /\ filtered = <<>>
    /\ trend_only = ""
    /\ files = NoFiles
    /\ top_n = 10
    /\ FetcherIdle

\* filter_20_percent_change(all_awards), the whole call (line 241)
FilterAwards(input) ==
    /\ pc = "accumulate"
    /\ data = <<>>
    /\ LET r == Run(variant, input, "int")
           c == ClassifyFrom(1, r.keys, r.ay, r.info, current_year)
           e == IF r.exc # "" THEN r.exc ELSE c.exc
       IN  /\ award_years' = r.ay
           /\ award_keys' = r.keys
           /\ award_info' = r.info
           /\ exc' = e
           /\ pc' = IF e = "" THEN "returned" ELSE "raised"
           /\ filtered' = IF e = "" THEN SortByChangeDesc(c.rows) ELSE <<>>
    /\ data' = input
    /\ UNCHANGED <<variant, current_year, input_class, trend_only, files>>
    /\ UNCHANGED top_n
    /\ UNCHANGED fetch_vars

\* the report files (lines 247-251), in a run whose sets of str iterate in
\* set_order
SaveReports(set_order) ==
    /\ pc = "filtered"
    /\ files' = Reports(variant, filtered, current_year, set_order)
    /\ pc' = "saved"
    /\ UNCHANGED <<variant, current_year, input_class, data, award_years,
                   award_keys, award_info, exc, filtered, trend_only>>
    /\ UNCHANGED top_n
    /\ UNCHANGED fetch_vars

NextMain ==
    \/ \E input \in MainInputs : FilterAwards(input)
    \/ \E t \in {"increase", "decrease", "both"} : ApplyTrendOnly(t)
    \/ \E set_order \in SetOrders : SaveReports(set_order)

SpecMain == InitMain /\ [][NextMain]_vars

(***************************************************************************)
(* SpecFetch: one call of the fetcher.                                     *)
(***************************************************************************)
InitFetch ==
    /\ variant \in {"V1", "V2", "FINAL", "FINAL2"}
    /\ input_class = "fetch"
    /\ current_year = 2023
    /\ data = <<>>
    /\ award_years = <<>>
    /\ award_keys = <<>>
    /\ award_info = <<>>
    /\ pc = "accumulate"
    /\ exc = ""
    /\ filtered = <<>>
    /\ trend_only = ""
    /\ files = NoFiles
    /\ top_n = 10
    /\ max_pages \in MaxPagesArgs
    /\ page = 1
    /\ retries = 0
    /\ output = <<>>
    /\ fpc = "fetching"
    /\ requested = <<>>
    /\ fetched = <<>>

NextFetch ==
    \/ RequestFails
    \/ ResponseInvalid
    \/ \E results \in Responses(page), has_next_page \in NextPageFlags(variant) :
         PageArrives(results, has_next_page)

SpecFetch == InitFetch /\ [][NextFetch]_vars

(***************************************************************************)
(* SpecTop: filter_20_percent_change, the --trend_only filter, and one     *)
(* call of save_top_increases_decreases(data, top_n), lines 160-164 of     *)
(* CONSCRAPERV2.py (154-158 of CONSCRAPERV1.py).                           *)
(***************************************************************************)
\* the values of top_n: __main__ passes the default, 10
TopNs == {0, 1, 2, 10}

\* awards of one recipient: rising by 50% or 200%, falling by 50% or 80%
TopShapes == {"none", "up", "surge", "down", "slump"}

RECURSIVE TopInputsOf(_)
TopInputsOf(n) ==
    IF n = 0 THEN {<<>>}
    ELSE {prev \o Shape(n, sh, "ACME") : prev \in TopInputsOf(n - 1), sh \in TopShapes}

TopInputs == TopInputsOf(MaxAwards) \ {<<>>}

InitTop ==
    /\ variant \in {"V1", "V2"}
    /\ input_class = "top"
    /\ current_year = 2023
    /\ data = <<>>
    /\ award_years = <<>>
    /\ award_keys = <<>>
    /\ award_info = <<>>
    /\ pc = "accumulate"
    /\ exc = ""
    /\ filtered = <<>>
    /\ trend_only = ""
    /\ files = NoFiles
    /\ top_n \in TopNs
    /\ FetcherIdle

\* save_top_increases_decreases(data, top_n): the rows of the two files
SaveTopIncreasesDecreases ==
    /\ pc = "filtered"
    /\ files' = [files EXCEPT !.top_increases = increases(filtered, top_n),
                              !.top_decreases = decreases(filtered, top_n)]
    /\ pc' = "saved"
    /\ UNCHANGED <<variant, current_year, input_class, data, award_years,
                   award_keys, award_info, exc, filtered, trend_only>>
    /\ UNCHANGED top_n
    /\ UNCHANGED fetch_vars

NextTop ==
    \/ \E input \in TopInputs : FilterAwards(input)
    \/ \E t \in {"increase", "decrease", "both"} : ApplyTrendOnly(t)
    \/ SaveTopIncreasesDecreases

SpecTop == InitTop /\ [][NextTop]_vars

(***************************************************************************)
(* What the claims speak of.                                               *)
(***************************************************************************)
Max(S) == CHOOSE m \in S : \A x \in S : x <= m

\* award id has a row in the returned list
Emitted(id) == \E k \in 1..Len(filtered) : filtered[k].award_id = id

\* the years of the trailing window of an award: its up-to-3 greatest years
WindowYears(id) ==
    LET D == DOMAIN award_years[id]
    IN  {y \in D : Cardinality({z \in D : z > y}) < 3}

FirstAmount(id) == award_years[id][Min(WindowYears(id))]
LastAmount(id) == award_years[id][Max(WindowYears(id))]

\* the year a record carries: the four leading digits of its date
CarriesYear(r) ==
    /\ r.action_date.t = "str"
    /\ Len(r.action_date.v) >= 4
    /\ \A k \in 1..4 : IsDigit(r.action_date.v[k])

CarriedYear(r) == DigitsValue(SubSeq(r.action_date.v, 1, 4))

RecordsOf(id) == {k \in 1..Len(data) : data[k].award_id = Num(id)}

YearsCarried(id) == {CarriedYear(data[k]) : k \in {j \in RecordsOf(id) : CarriesYear(data[j])}}

IdsSeen == {data[k].award_id.v : k \in {j \in 1..Len(data) : data[j].award_id.t = "num"}}

\* the extraction of the identifier, the year or the amount of award fails
ExtractionFailsIn(v, award, num) ==
    \/ ~ParseYear(award).ok
    \/ award.award_id.t = "missing"
    \/ ~ParseAmount(v, award, num).ok

ExtractionFails(v, award) == ExtractionFailsIn(v, award, "int")

(***************************************************************************)
(* C1: an award with at least 2 years in its trailing window and a         *)
(* non-zero first amount is emitted if and only if                         *)
(* abs((last - first) / first) >= 0.20, the boundary included: 100 -> 120  *)
(* and 100 -> 80 are emitted, 100 -> 119 and 100 -> 81 are not.            *)
(***************************************************************************)
C1_ThresholdInclusive ==
    pc = "returned" =>
      \A id \in DOMAIN award_years :
        (Cardinality(WindowYears(id)) >= 2 /\ FirstAmount(id) # 0) =>
          LET f == FirstAmount(id)
              l == LastAmount(id)
          IN  /\ Emitted(id) <=> (100 * Abs(l - f) >= 20 * Abs(f))
              /\ (f = 100 /\ l \in {120, 80}) => Emitted(id)
              /\ (f = 100 /\ l \in {119, 81}) => ~Emitted(id)

\* the boundary case: 100 in 2021, 120 in 2023, emitted
C1_Witness ==
    /\ pc = "returned"
    /\ 1 \in DOMAIN award_years
    /\ DOMAIN award_years[1] = {2021, 2023}
    /\ award_years[1][2021] = 100
    /\ award_years[1][2023] = 120
    /\ Emitted(1)

\* the other boundary cases
C1_WitnessBelow ==
    /\ pc = "returned"
    /\ 1 \in DOMAIN award_years
    /\ DOMAIN award_years[1] = {2021, 2023}
    /\ award_years[1][2021] = 100
    /\ award_years[1][2023] \in {119, 81}
    /\ ~Emitted(1)

(***************************************************************************)
(* C2: a record whose identifier, year or amount fails to extract leaves   *)
(* award_years and award_info exactly as they were (no cell is created or  *)
(* changed).                                                               *)
(***************************************************************************)
C2_FailedRecordLeavesNoTrace ==
    [][(/\ pc = "accumulate"
        /\ Len(data') = Len(data) + 1
        /\ ExtractionFails(variant, data'[Len(data')]))
       => (award_years' = award_years /\ award_info' = award_info)]_vars

(***************************************************************************)
(* C3: no record, however malformed, makes the accumulation loop raise:    *)
(* no exception leaves filter_20_percent_change.                           *)
(***************************************************************************)
C3_NoErrorSurfaces == pc # "raised" /\ exc = ""

(***************************************************************************)
(* C4: the funding columns of every row are the years                      *)
(* current_year - 4 .. current_year, each the award's total of that year   *)
(* (zero when absent), and total_5yr_funding is their sum.                 *)
(***************************************************************************)
C4_WindowEndsAtReferenceYear ==
    pc = "returned" =>
      \A k \in 1..Len(filtered) :
        LET r == filtered[k]
            years == award_years[r.award_id]
        IN  /\ DOMAIN r.funding = (current_year - 4)..current_year
            /\ \A y \in DOMAIN r.funding : r.funding[y] = YearGet(years, y)
            /\ r.total_5yr_funding =
                 SumSeq([j \in 1..5 |-> YearGet(years, current_year - 5 + j)])

(***************************************************************************)
(* C5: an award whose trailing-window first amount is 0 is never emitted,  *)
(* whatever its last amount, and no division by zero is performed.         *)
(***************************************************************************)
C5_ZeroBaselineExcluded ==
    /\ exc # "ZeroDivisionError"
    /\ pc = "returned" =>
         \A id \in DOMAIN award_years : FirstAmount(id) = 0 => ~Emitted(id)

\* a zero first amount followed by a non-zero last amount
C5_Witness ==
    /\ pc = "returned"
    /\ \E id \in DOMAIN award_years :
         /\ Cardinality(WindowYears(id)) >= 2
         /\ FirstAmount(id) = 0
         /\ LastAmount(id) # 0

(***************************************************************************)
(* C6: an award all of whose records carry one and the same year is never  *)
(* emitted, and neither is an award with fewer than 2 years in its         *)
(* trailing window.                                                        *)
(***************************************************************************)
C6_SinglePointExcluded ==
    pc = "returned" =>
      \A id \in IdsSeen :
        /\ Cardinality(YearsCarried(id)) <= 1 => ~Emitted(id)
        /\ (id \in DOMAIN award_years /\ Cardinality(WindowYears(id)) < 2)
             => ~Emitted(id)

\* an award with two records of the same year, of different dates and of
\* amounts more than 20% apart, and no other
C6_Witness ==
    /\ pc = "returned"
    /\ \E id \in IdsSeen :
         /\ Cardinality(YearsCarried(id)) = 1
         /\ \E i, j \in RecordsOf(id) :
              /\ data[i].action_date # data[j].action_date
              /\ data[i].federal_action_obligation = Num(50)
              /\ data[j].federal_action_obligation = Num(80)
         /\ ~Emitted(id)

(***************************************************************************)
(* C9: every emitted row is Increase when its change is > 0 and Decrease   *)
(* otherwise, its change is never zero, and abs_change is the              *)
(* non-negative magnitude of last_amount - first_amount.                   *)
(***************************************************************************)
C9_TrendAndMagnitude ==
    \A k \in 1..Len(filtered) :
      LET f == filtered[k].first_amount
          l == filtered[k].last_amount
      IN  /\ f # 0 /\ l # f
          /\ filtered[k].trend \in {"Increase", "Decrease"}
          /\ filtered[k].trend = "Increase" <=> ((l > f /\ f > 0) \/ (l < f /\ f < 0))
          /\ filtered[k].abs_change >= 0
          /\ filtered[k].abs_change \in {l - f, f - l}

\* a row of both trends, one of them over a negative first amount
C9_Witness ==
    /\ pc = "returned"
    /\ \E k \in 1..Len(filtered) :
         /\ filtered[k].first_amount < 0
         /\ filtered[k].last_amount > filtered[k].first_amount
         /\ filtered[k].trend = "Decrease"

C9_WitnessIncrease ==
    /\ pc = "returned"
    /\ \E k \in 1..Len(filtered) : filtered[k].trend = "Increase"

(***************************************************************************)
(* C10: the returned list is in non-increasing order of change_percent,    *)
(* rows of equal change_percent keep the order in which their award        *)
(* identifiers were first seen in the input, and the trend filter keeps    *)
(* the order.                                                              *)
(***************************************************************************)
\* the first record of the input that carries the identifier
FirstSeen(id) == Min(RecordsOf(id))

\* the first record of the input that carries the identifier and a year
FirstDated(id) == Min({k \in RecordsOf(id) : CarriesYear(data[k])})

NonIncreasing ==
    \A i, j \in 1..Len(filtered) :
      i < j => filtered[i].change_percent >= filtered[j].change_percent

\* as claimed
C10_SortedTiesByFirstSeen ==
    pc \in {"returned", "filtered"} =>
      /\ NonIncreasing
      /\ \A i, j \in 1..Len(filtered) :
           (i < j /\ filtered[i].change_percent = filtered[j].change_percent)
             => FirstSeen(filtered[i].award_id) < FirstSeen(filtered[j].award_id)

\* as amended: rows of equal change_percent keep the order in which their
\* identifiers entered award_years, which is the order of their first records
\* whose date yields a year
C10_SortedTiesByFirstDated ==
    pc \in {"returned", "filtered"} =>
      /\ NonIncreasing
      /\ \A i, j \in 1..Len(filtered) :
           (i < j /\ filtered[i].change_percent = filtered[j].change_percent)
             => FirstDated(filtered[i].award_id) < FirstDated(filtered[j].award_id)

\* two rows of equal change_percent after the trend filter, award 2 first,
\* in a run whose first record is the undated one of award 1
C10_Witness ==
    /\ pc = "filtered"
    /\ Len(filtered) = 2
    /\ filtered[1].change_percent = filtered[2].change_percent
    /\ filtered[1].award_id = 2
    /\ filtered[2].award_id = 1
    /\ FirstSeen(1) = 1
    /\ ~CarriesYear(data[1])

\* two rows that the sort has exchanged
C10_WitnessExchanged ==
    /\ pc = "returned"
    /\ Len(filtered) = 2
    /\ filtered[1].change_percent > filtered[2].change_percent
    /\ FirstDated(filtered[1].award_id) > FirstDated(filtered[2].award_id)

(***************************************************************************)
(* C7: for any permutation of the input, the accumulation loop builds the  *)
(* same award_years: the same cells with the same totals.                  *)
(***************************************************************************)
Perms(n) == Permutations(1..n)

Permuted(seq, p) == [k \in 1..Len(seq) |-> seq[p[k]]]

\* the orders a list of records can be given in
Orders(seq) == {Permuted(seq, p) : p \in Perms(Len(seq))}

\* the cells of an accumulator
Cells(ay) == UNION {{<<id, y>> : y \in DOMAIN ay[id]} : id \in DOMAIN ay}

\* no sum of the loop on seq is rounded: in doubles every prefix of the
\* input gives what it gives with the sums kept exact
NoRounding(v, seq) ==
    \A k \in 0..Len(seq) :
      Run(v, SubSeq(seq, 1, k), "double").ay = Run(v, SubSeq(seq, 1, k), "exact").ay

\* as claimed
C7_PermutationSameTotals ==
    pc = "accumulate" =>
      \A seq \in Orders(data) :
        Run(variant, seq, "double").ay = award_years

\* as amended: the same cells in every order, and the same totals in two
\* orders neither of which rounds a sum
C7_PermutationSameCells ==
    pc = "accumulate" =>
      \A seq \in Orders(data) :
        LET r == Run(variant, seq, "double")
        IN  /\ Cells(r.ay) = Cells(award_years)
            /\ \/ r.ay = award_years
               \/ ~NoRounding(variant, data)
               \/ ~NoRounding(variant, seq)

\* three records of one cell, 2^53, -2^53 and 1 among them, none rounded in
\* the order of the input
C7_Witness ==
    /\ pc = "accumulate"
    /\ Len(data) = 3
    /\ \A k \in 1..3 : data[k].award_id = Num(1) /\ data[k].action_date = DateA(2023)
    /\ {data[k].federal_action_obligation : k \in 1..3}
         = {Num(Big(1, 0)), Num(Big(0 - 1, 0)), Num(Big(0, 1))}
    /\ NoRounding(variant, data)
    /\ award_years[1][2023] = Big(0, 1)

(***************************************************************************)
(* C8: a second copy of a well-formed record of the input increases its    *)
(* cell by exactly its amount and leaves every other cell as it is; the    *)
(* whole input processed twice doubles every total.                        *)
(***************************************************************************)
WellFormed(v, award) == ~ExtractionFailsIn(v, award, "double")

Doubled(ay) == [id \in DOMAIN ay |-> [y \in DOMAIN ay[id] |-> ExactPlus(ay[id][y], ay[id][y])]]

\* award_years but for the cell of award, which holds x
WithCell(award, x) ==
    [award_years EXCEPT ![award.award_id.v] =
       [@ EXCEPT ![CarriedYear(award)] = x]]

AmountOf(v, award) == ParseAmount(v, award, "double").v

CellOf(award) == award_years[award.award_id.v][CarriedYear(award)]

\* as claimed
C8_DuplicateAddsAmount ==
    pc = "accumulate" =>
      /\ \A k \in 1..Len(data) :
           WellFormed(variant, data[k]) =>
             LoopBody(variant, award_years, award_keys, award_info, data[k], "double").ay
               = WithCell(data[k], ExactPlus(CellOf(data[k]), AmountOf(variant, data[k])))
      /\ Run(variant, data \o data, "double").ay = Doubled(award_years)

\* as amended: the copy changes its cell alone, to cell + amount when that
\* sum is a double; the input processed twice doubles every total when no sum
\* is rounded
C8_DuplicateAddsRoundedAmount ==
    pc = "accumulate" =>
      /\ \A k \in 1..Len(data) :
           WellFormed(variant, data[k]) =>
             LET after == LoopBody(variant, award_years, award_keys, award_info,
                                   data[k], "double").ay
                 sum == ExactPlus(CellOf(data[k]), AmountOf(variant, data[k]))
                 cell == after[data[k].award_id.v][CarriedYear(data[k])]
             IN  /\ after = WithCell(data[k], cell)
                 /\ FloatRound(sum) = sum => cell = sum
      /\ NoRounding(variant, data \o data)
           => Run(variant, data \o data, "double").ay = Doubled(award_years)

\* a copy of a record of amount 2^53 arrives at a cell that holds 2^53, with
\* another cell of the award and a cell of another award beside it
C8_Witness ==
    /\ pc = "accumulate"
    /\ Cardinality(Cells(award_years)) = 3
    /\ 1 \in DOMAIN award_years
    /\ DOMAIN award_years[1] = {2021, 2023}
    /\ award_years[1][2023] = Big(1, 0)
    /\ award_years[1][2021] = Big(0, 3)
    /\ \E k \in 1..Len(data) : data[k].federal_action_obligation = Num(Big(1, 0))

(***************************************************************************)
(* C11: when args.trend_only is increase or decrease, the result file and  *)
(* every rollup (the top lists, the biggest change, the summary and the    *)
(* recipient summary) hold only awards whose trend, in lower case, is the  *)
(* requested one, in every script that accepts --trend_only.               *)
(***************************************************************************)
\* every row of rows has the requested trend
OnlyTrend(rows, t) == \A k \in 1..Len(rows) : Lower(rows[k].trend) = t

\* the rows of the ranked list that have the requested trend
Matching(rows, t) == SelectSeq(rows, LAMBDA a : Lower(a.trend) = t)

C11_OnlyRequestedTrend ==
    (pc = "saved" /\ trend_only \in {"increase", "decrease"}) =>
      /\ OnlyTrend(files.result, trend_only)
      /\ OnlyTrend(files.top_increases, trend_only)
      /\ OnlyTrend(files.top_decreases, trend_only)
      /\ OnlyTrend(files.biggest, trend_only)
      /\ variant \in {"V1", "V2"} =>
           /\ files.summary[1].award_count = Len(Matching(files.result, trend_only))
           /\ \A k \in 1..Len(files.recipients) :
                Lower(files.recipients[k].major_trend) = trend_only

(***************************************************************************)
(* C12: the one row save_summary_csv writes has total_5yr_funding equal to *)
(* the sum of total_5yr_funding over the trend-filtered rows, every        *)
(* funding_<year> equal to the sum of that column over the same rows, and  *)
(* award_count equal to the number of those rows.                          *)
(***************************************************************************)
\* the sum of total_5yr_funding over the rows of indices idx
RECURSIVE SumTotals(_, _)
SumTotals(rows, idx) ==
    IF idx = {} THEN 0
    ELSE LET k == CHOOSE i \in idx : TRUE
         IN  rows[k].total_5yr_funding + SumTotals(rows, idx \ {k})

\* the sum of funding_<y> over the rows of indices idx
RECURSIVE SumYear(_, _, _)
SumYear(rows, idx, y) ==
    IF idx = {} THEN 0
    ELSE LET k == CHOOSE i \in idx : TRUE
         IN  rows[k].funding[y] + SumYear(rows, idx \ {k}, y)

C12_SummaryConserves ==
    (pc = "saved" /\ variant \in {"V1", "V2"}) =>
      /\ Len(files.summary) = 1
      /\ files.summary[1].total_5yr_funding
           = SumTotals(files.result, 1..Len(files.result))
      /\ \A y \in (current_year - 5)..(current_year - 1) :
           files.summary[1].funding[y] = SumYear(files.result, 1..Len(files.result), y)
      /\ files.summary[1].award_count = Len(files.result)

\* three awards qualify, the two decreases are kept and summed
C12_Witness ==
    /\ pc = "saved"
    /\ variant = "V2"
    /\ trend_only = "decrease"
    /\ Cardinality(DOMAIN award_years) = 3
    /\ Len(files.result) = 2
    /\ files.summary[1].total_5yr_funding = 600
    /\ files.summary[1].funding[2021] = 400
    /\ files.summary[1].award_count = 2

(***************************************************************************)
(* C13: the rows save_recipient_summary writes partition the               *)
(* trend-filtered rows by exact recipient_name: every award is counted in  *)
(* exactly one recipient row, the award_count values sum to the number of  *)
(* awards, the total_5yr_funding values sum to the total of the summary,   *)
(* and the rows are in non-increasing order of total_5yr_funding.          *)
(***************************************************************************)
\* the indices of the rows of the recipient rec
AwardsOf(rows, rec) == {k \in 1..Len(rows) : rows[k].recipient_name = rec}

\* the sum of award_count over the rows of indices idx
RECURSIVE SumCounts(_, _)
SumCounts(rows, idx) ==
    IF idx = {} THEN 0
    ELSE LET k == CHOOSE i \in idx : TRUE
         IN  rows[k].award_count + SumCounts(rows, idx \ {k})

C13_RecipientsPartition ==
    (pc = "saved" /\ variant \in {"V1", "V2"}) =>
      LET R == files.recipients
          D == files.result
      IN  /\ \A k \in 1..Len(D) :
               Cardinality({i \in 1..Len(R) : R[i].recipient_name = D[k].recipient_name}) = 1
          /\ \A i \in 1..Len(R) :
               /\ R[i].award_count = Cardinality(AwardsOf(D, R[i].recipient_name))
               /\ R[i].award_count >= 1
               /\ R[i].total_5yr_funding = SumTotals(D, AwardsOf(D, R[i].recipient_name))
          /\ SumCounts(R, 1..Len(R)) = Len(D)
          /\ SumTotals(R, 1..Len(R)) = files.summary[1].total_5yr_funding
          /\ \A i \in 1..(Len(R) - 1) :
               R[i].total_5yr_funding >= R[i + 1].total_5yr_funding

\* the recipient met first in the ranked rows has one award of 400, the
\* other two awards of 300 each, and comes first
C13_Witness ==
    /\ pc = "saved"
    /\ variant = "V2"
    /\ Len(files.result) = 3
    /\ files.result[1].recipient_name = "BOLT"
    /\ Len(files.recipients) = 2
    /\ files.recipients[1].recipient_name = "ACME"
    /\ files.recipients[1].award_count = 2
    /\ files.recipients[1].total_5yr_funding = 600
    /\ files.recipients[2].recipient_name = "BOLT"
    /\ files.recipients[2].total_5yr_funding = 400

(***************************************************************************)
(* C14: major_trend of a recipient is the most frequent trend among the    *)
(* recipient's awards, and when Increase and Decrease are equally frequent *)
(* it is the trend of the recipient's first award in the ranked rows.      *)
(***************************************************************************)
\* the trends of the awards of rec, in the order of the rows
TrendsOf(rows, rec) ==
    LET own == SelectSeq(rows, LAMBDA a : a.recipient_name = rec)
    IN  [k \in 1..Len(own) |-> own[k].trend]

\* the most frequent label, the first one on a tie
FirstSeenMode(trends) ==
    IF Count(trends, "Increase") > Count(trends, "Decrease") THEN "Increase"
    ELSE IF Count(trends, "Increase") < Count(trends, "Decrease") THEN "Decrease"
    ELSE trends[1]

C14_MajorTrendFirstSeenOnTie ==
    (pc = "saved" /\ variant \in {"V1", "V2"}) =>
      \A i \in 1..Len(files.recipients) :
        files.recipients[i].major_trend
          = FirstSeenMode(TrendsOf(files.result, files.recipients[i].recipient_name))

(***************************************************************************)
(* C15: the fetcher stops at a page without records, at the cap or when    *)
(* the retries of a page are spent; with max_pages = N given it never      *)
(* requests a page numbered above N; the records it returns are those of   *)
(* the pages fetched, in ascending page order, each page appended once.    *)
(***************************************************************************)
\* the records of the pages of a list, page after page
RECURSIVE RecordsOfPages(_)
RecordsOfPages(pages) ==
    IF pages = <<>> THEN <<>>
    ELSE RecordsOfPages(SubSeq(pages, 1, Len(pages) - 1)) \o PageResults(pages[Len(pages)])

\* the records of r that the script v appends
KeptOf(v, r) ==
    IF v = "V1" THEN SelectSeq(r, LAMBDA x : x.year \in 2018..2023) ELSE r

\* the last request sent, when there is one
LastRequest == requested[Len(requested)]

C15_FetchCappedInOrder ==
    /\ max_pages.given =>
         \A k \in 1..Len(requested) : requested[k].page <= max_pages.n
    /\ \A k \in 1..(Len(fetched) - 1) : fetched[k] < fetched[k + 1]
    /\ output = KeptOf(variant, RecordsOfPages(fetched))
    /\ fpc = "returned" =>
         \/ LastRequest.outcome = "ok" /\ LastRequest.page \notin {fetched[k] : k \in 1..Len(fetched)}
         \/ LastRequest.outcome = "ok" /\ max_pages.given /\ LastRequest.page >= max_pages.n
         \/ LastRequest.outcome = "ok" /\ variant = "V1" /\ ~LastRequest.more
         \/ LastRequest.outcome # "ok"

(***************************************************************************)
(* C16: a request that fails, by the network or by the parsing of the      *)
(* response, is retried while the page has had fewer than max_retries      *)
(* attempts; no page has more than max_retries attempts; a page that       *)
(* succeeds on a retry is appended like any other, and the next page       *)
(* starts with no retry counted.                                           *)
(***************************************************************************)
\* the requests for the page of request k, up to request k
AttemptsUpTo(k) ==
    Cardinality({j \in 1..k : requested[j].page = requested[k].page})

C16_FailuresRetriedWithinLimit ==
    /\ \A k \in 1..Len(requested) : AttemptsUpTo(k) <= max_retries
    /\ \A k \in 1..Len(requested) :
         (requested[k].outcome # "ok" /\ AttemptsUpTo(k) < max_retries) =>
           \/ k = Len(requested) /\ fpc = "fetching"
           \/ k < Len(requested) /\ requested[k + 1].page = requested[k].page
    /\ \A k \in 1..Len(requested) :
         (requested[k].outcome = "ok" /\ PageResults(requested[k].page) # <<>>
            /\ k < Len(requested))
           => requested[k + 1].page = requested[k].page + 1
    /\ (fpc = "fetching" /\ requested # <<>> /\ LastRequest.outcome = "ok") => retries = 0

(***************************************************************************)
(* C17: when a page cannot be fetched the fetcher ends early: no page      *)
(* after it is requested, no exception leaves the fetcher, and the         *)
(* records returned are exactly those of the pages fetched before it.      *)
(***************************************************************************)
C17_UnrecoverablePageEndsQuietly ==
    /\ fpc # "raised"
    /\ (fpc # "fetching" /\ requested # <<>> /\ LastRequest.outcome # "ok") =>
         /\ \A k \in 1..Len(requested) : requested[k].page <= LastRequest.page
         /\ fetched = [k \in 1..(LastRequest.page - 1) |-> k]
         /\ output = KeptOf(variant, RecordsOfPages(fetched))

(***************************************************************************)
(* C18: the trailing window of an emitted award is made of the up-to-3     *)
(* greatest years for which the award has funding from well-formed         *)
(* records (no year without such a record enters it); first is the entry   *)
(* of the smallest of them and last that of the greatest, and              *)
(* first_year < last_year.                                                 *)
(***************************************************************************)
\* the years of the records of award id whose identifier, year and amount
\* all extract
FundedYears(id) ==
    {CarriedYear(data[k]) :
       k \in {j \in RecordsOf(id) : ~ExtractionFails(variant, data[j])}}

\* the up-to-3 greatest years of a set
Greatest3(S) == {y \in S : Cardinality({z \in S : z > y}) < 3}

C18_WindowOfFundedYears ==
    pc = "returned" =>
      \A k \in 1..Len(filtered) :
        LET W == Greatest3(FundedYears(filtered[k].award_id))
        IN  /\ W # {}
            /\ filtered[k].first_year = Min(W)
            /\ filtered[k].last_year = Max(W)
            /\ filtered[k].first_year < filtered[k].last_year
            /\ filtered[k].first_amount = award_years[filtered[k].award_id][Min(W)]
            /\ filtered[k].last_amount = award_years[filtered[k].award_id][Max(W)]

(***************************************************************************)
(* C19: recipient_name and awarding_agency_code of an emitted row are      *)
(* those of the last record in input order that shares the award           *)
(* identifier, a missing field being the empty string.                     *)
(***************************************************************************)
\* the metadata award.get gives for a record
MetadataOf(award) ==
    [recipient_name |-> GetOrEmpty(award.recipient_name),
     awarding_agency_code |-> GetOrEmpty(award.awarding_agency_code)]

\* the metadata a row carries
MetadataIn(row) ==
    [recipient_name |-> row.recipient_name,
     awarding_agency_code |-> row.awarding_agency_code]

\* the records of award id whose identifier, year and amount all extract
ExtractedOf(id) == {j \in RecordsOf(id) : ~ExtractionFails(variant, data[j])}

\* as claimed: the last record of the identifier
C19_MetadataOfLastRecord ==
    pc = "returned" =>
      \A k \in 1..Len(filtered) :
        MetadataIn(filtered[k]) = MetadataOf(data[Max(RecordsOf(filtered[k].award_id))])

\* as amended: the last record of the identifier whose identifier, year and
\* amount all extract; a record that fails later leaves the metadata alone
C19_MetadataOfLastExtracted ==
    pc = "returned" =>
      \A k \in 1..Len(filtered) :
        LET extracted == ExtractedOf(filtered[k].award_id)
        IN  /\ extracted # {}
            /\ MetadataIn(filtered[k]) = MetadataOf(data[Max(extracted)])

\* award 1 is emitted with the metadata of its second record, which differs
\* from that of its first, and a third record of award 1 that does not
\* extract carries yet another
C19_Witness ==
    /\ pc = "returned"
    /\ Len(data) >= 3
    /\ Emitted(1)
    /\ Cardinality(ExtractedOf(1)) = 2
    /\ Max(ExtractedOf(1)) < Max(RecordsOf(1))
    /\ MetadataOf(data[Max(ExtractedOf(1))]) # MetadataOf(data[Min(ExtractedOf(1))])
    /\ MetadataOf(data[Max(ExtractedOf(1))]) # MetadataOf(data[Max(RecordsOf(1))])

\* an emitted award whose last extracted record has neither field
C19_WitnessMissing ==
    /\ pc = "returned"
    /\ \E k \in 1..Len(filtered) :
         /\ filtered[k].recipient_name = ""
         /\ filtered[k].awarding_agency_code = ""
         /\ Cardinality(ExtractedOf(filtered[k].award_id)) >= 2

(***************************************************************************)
(* C20: an emitted row has trend Increase exactly when                     *)
(* last_amount > first_amount and Decrease exactly when                    *)
(* last_amount < first_amount, negative amounts included.                  *)
(***************************************************************************)
C20_TrendFollowsAmounts ==
    pc = "returned" =>
      \A k \in 1..Len(filtered) :
        /\ filtered[k].trend = "Increase"
             <=> filtered[k].last_amount > filtered[k].first_amount
        /\ filtered[k].trend = "Decrease"
             <=> filtered[k].last_amount < filtered[k].first_amount

(***************************************************************************)
(* C21: whenever the classification loop builds a row for an award         *)
(* identifier, award_info holds an entry for that identifier: the lookup   *)
(* of lines 124-125 never raises KeyError, whatever mix of well-formed and *)
(* malformed records of the identifier the input holds.                    *)
(***************************************************************************)
\* the award passes the guards of lines 114, 120 and 123: line 124 is reached
ReachesLookup(id) ==
    /\ Cardinality(WindowYears(id)) >= 2
    /\ FirstAmount(id) # 0
    /\ Qualifies(FirstAmount(id), LastAmount(id))

C21_InfoHeldWhenRowBuilt ==
    /\ exc # "KeyError"
    /\ \A id \in DOMAIN award_years : ReachesLookup(id) => id \in DOMAIN award_info
    /\ pc = "returned" =>
         \A k \in 1..Len(filtered) : filtered[k].award_id \in DOMAIN award_info

\* an award is emitted whose first record created its year cell and failed at
\* the amount, before any record of the award had written award_info
C21_Witness ==
    /\ pc = "returned"
    /\ \E id \in IdsSeen :
         /\ Emitted(id)
         /\ CarriesYear(data[Min(RecordsOf(id))])
         /\ ExtractionFails(variant, data[Min(RecordsOf(id))])
         /\ Cardinality(ExtractedOf(id)) >= 2

(***************************************************************************)
(* C22: save_top_increases_decreases writes at most top_n rows per         *)
(* direction, the top_n most extreme of each: the Increase rows of         *)
(* greatest change_percent, and the Decrease rows of greatest drop (of     *)
(* most negative change_percent).                                          *)
(***************************************************************************)
RowsOf(rows) == {rows[k] : k \in 1..Len(rows)}

\* chosen holds min(n, number of rows of the trend) rows of the trend
ChosenAmong(chosen, rows, trend, n) ==
    /\ Len(chosen) <= n
    /\ Cardinality(RowsOf(chosen)) = Len(chosen)
    /\ RowsOf(chosen) \subseteq RowsOf(WithTrend(rows, trend))
    /\ Len(chosen) = n \/ RowsOf(chosen) = RowsOf(WithTrend(rows, trend))

\* the rows of the trend left out
LeftOut(chosen, rows, trend) == RowsOf(WithTrend(rows, trend)) \ RowsOf(chosen)

\* no row left out rises more than a row chosen
LargestIncreases(chosen, rows) ==
    \A c \in RowsOf(chosen), r \in LeftOut(chosen, rows, "Increase") :
       r.change_percent <= c.change_percent

\* no row left out drops more than a row chosen
LargestDrops(chosen, rows) ==
    \A c \in RowsOf(chosen), r \in LeftOut(chosen, rows, "Decrease") :
       r.change_percent >= c.change_percent

C22_TopMostExtreme ==
    pc = "saved" =>
      /\ ChosenAmong(files.top_increases, filtered, "Increase", top_n)
      /\ ChosenAmong(files.top_decreases, filtered, "Decrease", top_n)
      /\ LargestIncreases(files.top_increases, filtered)
      /\ LargestDrops(files.top_decreases, filtered)

====
